---- MODULE Spec2Model ----
(***************************************************************************)
(* A model of scripts/customize_template.py: the interactive one-time      *)
(* renaming of the QBit template.  Strings are sequences of one-character  *)
(* strings, paths are sequences of path segments, and main() is a state    *)
(* machine whose program counter walks the prompts, the directory          *)
(* relocation, the file renaming and the content substitution.             *)
(***************************************************************************)
EXTENDS Integers, Sequences, FiniteSets

VARIABLES
    scenario,      \* which bounded universe of inputs and file trees the run draws from
    pc,            \* position of main()
    dirs,          \* the directories below the repository root (set of paths)
    files,         \* the files below the repository root: path -> [kind, text]
    dirs0,         \* the directories before main() ran
    files0,        \* the files before main() ran
    qbit_name,     \* main: qbit_name
    kebab_name,    \* main: kebab_name
    pascal_name,   \* main: pascal_name
    camel_name,    \* main: camel_name
    package_name,  \* main: package_name
    group_id,      \* main: group_id
    artifact_id,   \* main: artifact_id
    github_org,    \* main: github_org
    answer,        \* what was typed at the confirmation prompt
    confirm,       \* main: confirm
    root_idx,      \* index of the source root the two loops of main() are at
    all_files,     \* main: all_files
    file_idx,      \* index of the file replace_in_files is at
    replacements,  \* main: replacements (dict in insertion order)
    log,           \* every filesystem mutation performed so far, in order
    prompts        \* number of calls of input() so far

vars == <<scenario, pc, dirs, files, dirs0, files0, qbit_name, kebab_name,
          pascal_name, camel_name, package_name, group_id, artifact_id,
          github_org, answer, confirm, root_idx, all_files, file_idx,
          replacements, log, prompts>>

-----------------------------------------------------------------------------
(* Bounds of the input universes *)

\* longest QBit name typed in the "case" scenario
MaxNameLen == 4

\* longest name over a letter and the hyphen typed in the "case" scenario
MaxKebabLen == 8

\* longest answer typed at the confirmation prompt in the "confirm" scenario
MaxAnswerLen == 3

\* most fragments a file's text is built from in the "subst" scenario
MaxFrags == 2

-----------------------------------------------------------------------------
(* Characters and strings *)

LowerLetters == <<"a", "b", "c", "d", "e", "f", "g", "h", "i", "j", "k", "l", "m", "n", "o", "p", "q", "r", "s", "t", "u", "v", "w", "x", "y", "z">>

UpperLetters == <<"A", "B", "C", "D", "E", "F", "G", "H", "I", "J", "K", "L", "M", "N", "O", "P", "Q", "R", "S", "T", "U", "V", "W", "X", "Y", "Z">>

Digits == <<"0", "1", "2", "3", "4", "5", "6", "7", "8", "9">>

Range(s) == {s[i] : i \in DOMAIN s}

IsUpper(c) == c \in Range(UpperLetters)

IsLower(c) == c \in Range(LowerLetters)

IsDigit(c) == c \in Range(Digits)

\* \s of the regular expressions and the whitespace str.strip() removes
IsSpace(c) == c = " "

\* a character of the class [-_\s]
IsSep(c) == c = "-" \/ c = "_" \/ IsSpace(c)

LetterIndex(letters, c) == CHOOSE i \in DOMAIN letters : letters[i] = c

ToLower(c) == IF IsUpper(c) THEN LowerLetters[LetterIndex(UpperLetters, c)] ELSE c

ToUpper(c) == IF IsLower(c) THEN UpperLetters[LetterIndex(LowerLetters, c)] ELSE c

\* str.lower()
Lower(s) == [i \in 1..Len(s) |-> ToLower(s[i])]

\* s[i:] of Python for the 1-based index i
From(s, i) == SubSeq(s, i, Len(s))

RECURSIVE LStrip(_)
LStrip(s) == IF s # <<>> /\ IsSpace(s[1]) THEN LStrip(Tail(s)) ELSE s

RECURSIVE RStrip(_)
RStrip(s) ==
    IF s # <<>> /\ IsSpace(s[Len(s)]) THEN RStrip(SubSeq(s, 1, Len(s) - 1)) ELSE s

\* str.strip()
Strip(s) == RStrip(LStrip(s))

StartsWith(s, p) == Len(p) <= Len(s) /\ SubSeq(s, 1, Len(p)) = p

EndsWith(s, p) == Len(p) <= Len(s) /\ SubSeq(s, Len(s) - Len(p) + 1, Len(s)) = p

\* old in s
Contains(s, old) == \E i \in 1..(Len(s) - Len(old) + 1) : SubSeq(s, i, i + Len(old) - 1) = old

RECURSIVE Join(_)
Join(words) == IF words = <<>> THEN <<>> ELSE Head(words) \o Join(Tail(words))

\* str.replace(old, new, 1): the first occurrence only
Replace_FirstOnly(text, old, new) ==
    LET at == {i \in 1..(Len(text) - Len(old) + 1) : SubSeq(text, i, i + Len(old) - 1) = old}
    IN  IF at = {} THEN text
        ELSE LET i == CHOOSE x \in at : \A y \in at : x <= y
             IN  SubSeq(text, 1, i - 1) \o new \o From(text, i + Len(old))

\* str.replace(old, new) for a non-empty old: every non-overlapping occurrence,
\* leftmost first; the text put in is not scanned again
RECURSIVE Replace(_, _, _)
Replace(text, old, new) ==
    LET at == {i \in 1..(Len(text) - Len(old) + 1) : SubSeq(text, i, i + Len(old) - 1) = old}
    IN  IF at = {} THEN text
        ELSE LET i == CHOOSE x \in at : \A y \in at : x <= y
             IN  SubSeq(text, 1, i - 1) \o new \o Replace(From(text, i + Len(old)), old, new)

\* str.split(sep) for a one-character sep: the pieces between the separators,
\* empty pieces included
RECURSIVE SplitOn(_, _, _)
SplitOn(s, sep, cur) ==
    IF s = <<>> THEN <<cur>>
    ELSE IF s[1] = sep THEN <<cur>> \o SplitOn(Tail(s), sep, <<>>)
         ELSE SplitOn(Tail(s), sep, Append(cur, s[1]))

-----------------------------------------------------------------------------
(* The helper functions of the script *)

\* prompt(): the typed line stripped, or the default when nothing is left
prompt(typed, default) == IF Strip(typed) = <<>> THEN default ELSE Strip(typed)

\* re.split(r'[-_\s]+', name): the words between the runs of separators; a
\* leading or trailing run leaves an empty word at that end.  inRun says that
\* the previous character was a separator.
RECURSIVE SplitWords(_, _, _)
SplitWords(s, cur, inRun) ==
    IF s = <<>> THEN <<cur>>
    ELSE IF IsSep(s[1])
         THEN IF inRun THEN SplitWords(Tail(s), cur, TRUE)
              ELSE <<cur>> \o SplitWords(Tail(s), <<>>, TRUE)
         ELSE SplitWords(Tail(s), Append(cur, s[1]), FALSE)

\* str.capitalize(): first character upper-cased, every other one lower-cased
Capitalize(word) ==
    IF word = <<>> THEN <<>> ELSE <<ToUpper(word[1])>> \o Lower(Tail(word))

to_pascal_case(name) ==
    LET words == SplitWords(name, <<>>, FALSE)
    IN  Join([i \in 1..Len(words) |-> Capitalize(words[i])])

to_camel_case(name) ==
    LET pascal == to_pascal_case(name)
    IN  IF pascal # <<>> THEN <<ToLower(pascal[1])>> \o Tail(pascal) ELSE <<>>

\* end of the run [a-z]+ that starts at index i of s
RECURSIVE LowerRunEnd(_, _)
LowerRunEnd(s, i) == IF i < Len(s) /\ IsLower(s[i + 1]) THEN LowerRunEnd(s, i + 1) ELSE i

\* re.sub('(.)([A-Z][a-z]+)', r'\1-\2', s) from index i on
RECURSIVE SubTitleWord(_, _)
SubTitleWord(s, i) ==
    IF i > Len(s) THEN <<>>
    ELSE IF i + 2 <= Len(s) /\ IsUpper(s[i + 1]) /\ IsLower(s[i + 2])
         THEN LET e == LowerRunEnd(s, i + 2)
              IN  <<s[i], "-">> \o SubSeq(s, i + 1, e) \o SubTitleWord(s, e + 1)
         ELSE <<s[i]>> \o SubTitleWord(s, i + 1)

\* re.sub('([a-z0-9])([A-Z])', r'\1-\2', s) from index i on
RECURSIVE SubLowerUpper(_, _)
SubLowerUpper(s, i) ==
    IF i > Len(s) THEN <<>>
    ELSE IF i + 1 <= Len(s) /\ (IsLower(s[i]) \/ IsDigit(s[i])) /\ IsUpper(s[i + 1])
         THEN <<s[i], "-", s[i + 1]>> \o SubLowerUpper(s, i + 2)
         ELSE <<s[i]>> \o SubLowerUpper(s, i + 1)

\* to_kebab_case without its second substitution
to_kebab_case_OneSub(name) ==
    Replace(Replace(Lower(SubTitleWord(name, 1)), <<"_">>, <<"-">>), <<" ">>, <<"-">>)

to_kebab_case(name) ==
    LET s1 == SubTitleWord(name, 1)
        s2 == SubLowerUpper(s1, 1)
    IN  Replace(Replace(Lower(s2), <<"_">>, <<"-">>), <<" ">>, <<"-">>)

\* re.sub(r'[-_\s]+', '', name).lower()
to_package_name(name) == Lower(SelectSeq(name, LAMBDA c : ~IsSep(c)))

-----------------------------------------------------------------------------
(* Fixed values of main() *)

\* the default answers of the four prompts
DefaultName == <<"m", "y", "-", "q", "b", "i", "t">>

DefaultGroupId == <<"c", "o", "m", ".", "k", "i", "n", "g", "s", "r", "o", "o", "k", ".", "q", "b", "i", "t", "s">>

DefaultArtifactId(kebab) == <<"q", "b", "i", "t", "-">> \o kebab

DefaultGithubOrg == <<"q", "r", "u", "n", "-", "i", "o">>

old_package == <<"c", "o", "m", ".", "k", "i", "n", "g", "s", "r", "o", "o", "k", ".", "q", "b", "i", "t", "s", ".", "t", "o", "d", "o">>

old_package_path == <<<<"c", "o", "m">>, <<"k", "i", "n", "g", "s", "r", "o", "o", "k">>, <<"q", "b", "i", "t", "s">>, <<"t", "o", "d", "o">>>>

\* the two source roots, as paths below the repository root
SrcRoots == <<<<<<"s", "r", "c">>, <<"m", "a", "i", "n">>, <<"j", "a", "v", "a">>>>, <<<<"s", "r", "c">>, <<"t", "e", "s", "t">>, <<"j", "a", "v", "a">>>>>>

\* the ancestors of the old package directory that main() tries to remove, in
\* the order it tries them
OldAncestors ==
    <<<<<<"c", "o", "m">>, <<"k", "i", "n", "g", "s", "r", "o", "o", "k">>, <<"q", "b", "i", "t", "s">>>>, <<<<"c", "o", "m">>, <<"k", "i", "n", "g", "s", "r", "o", "o", "k">>>>, <<<<"c", "o", "m">>>>>>

PomPath == <<<<"p", "o", "m", ".", "x", "m", "l">>>>

new_package(group, package) == group \o <<".">> \o package

\* Path(*new_package.split(".")): pathlib drops the empty segments
new_package_path(group, package) ==
    SelectSeq(SplitOn(new_package(group, package), ".", <<>>), LAMBDA seg : seg # <<>>)

\* the dict replacements, in insertion order (its keys are pairwise different)
Replacements(group, package, pascal, camel, artifact, org) ==
    LET new == new_package(group, package)
    IN  << [old |-> <<"p", "a", "c", "k", "a", "g", "e", " ">> \o old_package, new |-> <<"p", "a", "c", "k", "a", "g", "e", " ">> \o new],
           [old |-> <<"i", "m", "p", "o", "r", "t", " ">> \o old_package \o <<".">>, new |-> <<"i", "m", "p", "o", "r", "t", " ">> \o new \o <<".">>],
           [old |-> old_package, new |-> new],
           [old |-> <<"T", "o", "d", "o", "Q", "B", "i", "t", "C", "o", "n", "f", "i", "g">>, new |-> pascal \o <<"Q", "B", "i", "t", "C", "o", "n", "f", "i", "g">>],
           [old |-> <<"T", "o", "d", "o", "Q", "B", "i", "t", "P", "r", "o", "d", "u", "c", "e", "r">>, new |-> pascal \o <<"Q", "B", "i", "t", "P", "r", "o", "d", "u", "c", "e", "r">>],
           [old |-> <<"t", "o", "d", "o", "Q", "B", "i", "t", "C", "o", "n", "f", "i", "g">>, new |-> camel \o <<"Q", "B", "i", "t", "C", "o", "n", "f", "i", "g">>],
           [old |-> <<"T", "o", "d", "o", " ", "Q", "B", "i", "t">>, new |-> pascal \o <<" ", "Q", "B", "i", "t">>],
           [old |-> <<"T", "o", "d", "o">>, new |-> pascal],
           [old |-> <<"<", "a", "r", "t", "i", "f", "a", "c", "t", "I", "d", ">", "q", "b", "i", "t", "-", "t", "o", "d", "o", "<", "/", "a", "r", "t", "i", "f", "a", "c", "t", "I", "d", ">">>,
            new |-> <<"<", "a", "r", "t", "i", "f", "a", "c", "t", "I", "d", ">">> \o artifact \o <<"<", "/", "a", "r", "t", "i", "f", "a", "c", "t", "I", "d", ">">>],
           [old |-> <<"<", "n", "a", "m", "e", ">", "Q", "B", "i", "t", " ", "T", "o", "d", "o", "<", "/", "n", "a", "m", "e", ">">>,
            new |-> <<"<", "n", "a", "m", "e", ">", "Q", "B", "i", "t", " ">> \o pascal \o <<"<", "/", "n", "a", "m", "e", ">">>],
           [old |-> <<"q", "b", "i", "t", "-", "t", "o", "d", "o">>, new |-> artifact],
           [old |-> <<"q", "r", "u", "n", "-", "i", "o", "/", "q", "b", "i", "t", "-", "t", "o", "d", "o">>, new |-> org \o <<"/">> \o artifact],
           [old |-> <<"g", "i", "t", "h", "u", "b", ".", "c", "o", "m", "/", "q", "r", "u", "n", "-", "i", "o", "/", "q", "b", "i", "t", "-", "t", "o", "d", "o">>,
            new |-> <<"g", "i", "t", "h", "u", "b", ".", "c", "o", "m", "/">> \o org \o <<"/">> \o artifact] >>

\* the inner loop of replace_in_files: every entry of the table, in order, on
\* the text the earlier entries left
RECURSIVE ApplyFrom(_, _, _)
ApplyFrom(text, table, i) ==
    IF i > Len(table) THEN text
    ELSE ApplyFrom(Replace(text, table[i].old, table[i].new), table, i + 1)

ApplyTable(text, table) == ApplyFrom(text, table, 1)

\* replace_in_files without the test changed != text: every readable file is written
FileOutcome_AlwaysWrites(file, table) ==
    IF file.kind # "text" THEN [write |-> FALSE, text |-> file.text]
    ELSE [write |-> TRUE, text |-> ApplyTable(file.text, table)]

\* replace_in_files on one file: what is written to it, or "skip".  A file
\* that does not exist (a dangling link the glob listed) or that does not
\* decode as UTF-8 is skipped; a text file is written when the table changed it.
FileOutcome(file, table) ==
    IF file.kind # "text" THEN [write |-> FALSE, text |-> file.text]
    ELSE LET changed == ApplyTable(file.text, table)
         IN  [write |-> changed # file.text, text |-> changed]

\* the answer compared as typed, without strip().lower()
ConfirmValue_AsTyped(typed) == typed

\* the test the confirmation answer goes through: input(...).strip().lower()
ConfirmValue(typed) == Lower(Strip(typed))

\* a confirmation whose answer is not looked at
AfterConfirm_NeverAborts(value) == "move"

\* where main() goes after the confirmation prompt
AfterConfirm(value) == IF value = <<"n">> THEN "aborted" ELSE "move"

\* a check of pom.xml whose result is not looked at
AfterPomCheck_Ignored(found) == "ask_name"

\* where main() goes after looking for pom.xml
AfterPomCheck(found) == IF found THEN "ask_name" ELSE "no_pom"

-----------------------------------------------------------------------------
(* The file tree *)

IsPrefix(d, p) == Len(d) <= Len(p) /\ SubSeq(p, 1, Len(d)) = d

Parent(p) == SubSeq(p, 1, Len(p) - 1)

Basename(p) == p[Len(p)]

IsDir(D, p) == p = <<>> \/ p \in D

\* Path.exists(): a dangling link does not exist
Exists(D, F, p) == IsDir(D, p) \/ (p \in DOMAIN F /\ F[p].kind # "dangling")

\* what directory d holds
Entries(D, F, d) == {p \in D \cup DOMAIN F : Len(p) = Len(d) + 1 /\ IsPrefix(d, p)}

\* the path p after the tree at src became the tree at dst
Rebase(p, src, dst) == IF IsPrefix(src, p) THEN dst \o From(p, Len(src) + 1) ELSE p

RebaseFiles(F, src, dst) ==
    [q \in {Rebase(p, src, dst) : p \in DOMAIN F} |->
        F[CHOOSE p \in DOMAIN F : Rebase(p, src, dst) = q]]

\* Path.mkdir(parents=True, exist_ok=True) on path, from its k-th ancestor
\* down: the tree [dirs, log] with every missing directory made, outermost first
RECURSIVE Mkdirs(_, _, _)
Mkdirs(t, path, k) ==
    IF k > Len(path) THEN t
    ELSE LET d == SubSeq(path, 1, k)
         IN  IF d \in t.dirs THEN Mkdirs(t, path, k + 1)
             ELSE Mkdirs([t EXCEPT !.dirs = @ \cup {d},
                                   !.log = Append(@, [op |-> "mkdir", path |-> d])],
                         path, k + 1)

\* shutil.move(src, dst) of the directory src, within one file system: into
\* dst when dst is a directory, onto dst otherwise.  It raises when the real
\* destination exists or lies inside src.
MoveTarget(D, src, dst) == IF IsDir(D, dst) /\ dst # src THEN Append(dst, Basename(src)) ELSE dst

MoveRaises(D, F, src, dst) ==
    LET real == MoveTarget(D, src, dst)
    IN  /\ dst # src
        /\ \/ IsDir(D, dst) /\ Exists(D, F, real)
           \/ IsPrefix(src, real)

Move(t, src, dst) ==
    LET real == MoveTarget(t.dirs, src, dst)
    IN  IF real = src THEN t
        ELSE [t EXCEPT !.dirs = {Rebase(p, src, real) : p \in @},
                       !.files = RebaseFiles(@, src, real),
                       !.log = Append(@, [op |-> "move", path |-> src, to |-> real])]

\* the three removals done with a recursive delete instead of rmdir(): a
\* directory goes whether or not it is empty
RECURSIVE RemoveAncestors_Forced(_, _, _)
RemoveAncestors_Forced(t, root, k) ==
    IF k > Len(OldAncestors) THEN t
    ELSE LET d == root \o OldAncestors[k]
         IN  IF d \notin t.dirs THEN t
             ELSE RemoveAncestors_Forced(
                    [t EXCEPT !.dirs = {p \in @ : ~IsPrefix(d, p)},
                              !.files = [p \in {q \in DOMAIN @ : ~IsPrefix(d, q)} |-> @[p]],
                              !.log = Append(@, [op |-> "rmdir", path |-> d])],
                    root, k + 1)

\* the three rmdir() calls inside the try block, from the k-th on: an rmdir
\* of a directory that has an entry (or is gone) raises OSError, which ends
\* the block
RECURSIVE RemoveAncestors(_, _, _)
RemoveAncestors(t, root, k) ==
    IF k > Len(OldAncestors) THEN t
    ELSE LET d == root \o OldAncestors[k]
         IN  IF d \notin t.dirs \/ Entries(t.dirs, t.files, d) # {} THEN t
             ELSE RemoveAncestors([t EXCEPT !.dirs = @ \ {d},
                                            !.log = Append(@, [op |-> "rmdir", path |-> d])],
                                  root, k + 1)

\* new_dir.glob("Todo*.java")
TodoFiles(F, new_dir) ==
    {p \in DOMAIN F : /\ Parent(p) = new_dir
                      /\ StartsWith(Basename(p), <<"T", "o", "d", "o">>)
                      /\ Len(Basename(p)) >= 9
                      /\ EndsWith(Basename(p), <<".", "j", "a", "v", "a">>)}

\* java_file.parent / java_file.name.replace("Todo", pascal_name)
RenamedPath(p, pascal) == Append(Parent(p), Replace(Basename(p), <<"T", "o", "d", "o">>, pascal))

\* the renames of one source root: each globbed file goes to its new path (a
\* file already at that path is replaced)
RECURSIVE RenameAll(_, _, _)
RenameAll(t, todo, pascal) ==
    IF todo = {} THEN t
    ELSE LET p == CHOOSE x \in todo : TRUE
             q == RenamedPath(p, pascal)
         IN  IF q = p THEN RenameAll(t, todo \ {p}, pascal)
             ELSE RenameAll(
                    [t EXCEPT !.files = [r \in (DOMAIN @ \ {p}) \cup {q} |->
                                            IF r = q THEN @[p] ELSE @[r]],
                              !.log = Append(@, [op |-> "rename", path |-> p, to |-> q])],
                    todo \ {p}, pascal)

\* the orders in which a glob may list the set S
Orders(S) == {s \in [1..Cardinality(S) -> S] : \A i, j \in DOMAIN s : s[i] = s[j] => i = j}

FilesEnding(F, suffix) == {p \in DOMAIN F : EndsWith(Basename(p), suffix)}

\* (repo / "src").rglob("*.java")
JavaFiles(F) == {p \in FilesEnding(F, <<".", "j", "a", "v", "a">>) : Len(p) >= 2 /\ p[1] = <<"s", "r", "c">>}

\* repo.glob("*.md")
RootMdFiles(F) == {p \in FilesEnding(F, <<".", "m", "d">>) : Len(p) = 1}

\* (repo / "docs").rglob("*.md")
DocsMdFiles(F) == {p \in FilesEnding(F, <<".", "m", "d">>) : Len(p) >= 2 /\ p[1] = <<"d", "o", "c", "s">>}

\* repo.rglob("*.yml")
YmlFiles(F) == FilesEnding(F, <<".", "y", "m", "l">>)

\* repo.rglob("*.yaml")
YamlFiles(F) == FilesEnding(F, <<".", "y", "a", "m", "l">>)

-----------------------------------------------------------------------------
(* The universes the runs draw from *)

\* every string over alphabet of length n
RECURSIVE StringsOfLen(_, _)
StringsOfLen(alphabet, n) ==
    IF n = 0 THEN {<<>>}
    ELSE {Append(s, c) : s \in StringsOfLen(alphabet, n - 1), c \in alphabet}

StringsUpTo(alphabet, n) == UNION {StringsOfLen(alphabet, k) : k \in 0..n}

\* the pieces the text of README.md is built from in the "subst" scenario
Fragments ==
    { old_package, <<"p", "a", "c", "k", "a", "g", "e", " ">>, <<"i", "m", "p", "o", "r", "t", " ">>, <<".", "F", "o", "o", ";">>, <<"T", "o", "d", "o">>, <<"o", "d", "o", "Q", "B", "i", "t", "C", "o", "n", "f", "i", "g">>,
      <<"q", "b", "i", "t", "-", "t", "o", "d", "o">>, <<"q", "r", "u", "n", "-", "i", "o", "/", "q", "b", "i", "t", "-", "t", "o", "d", "o">>, <<"g", "i", "t", "h", "u", "b", ".", "c", "o", "m", "/">>, <<" ", "Q", "B", "i", "t">> }

RECURSIVE TextsOfFrags(_)
TextsOfFrags(n) ==
    IF n = 0 THEN {<<>>}
    ELSE {t \o f : t \in TextsOfFrags(n - 1), f \in Fragments}

FragmentTexts == UNION {TextsOfFrags(k) : k \in 0..MaxFrags}

\* what may be typed at the "QBit name" prompt
NameInputs(sc) ==
    CASE sc = "run" -> {<<>>, <<"t", "o", "d", "o">>, <<"q", "b", "i", "t", "s">>}
      [] sc = "case" -> StringsUpTo({"a", "b", "Q", "-", "_", " "}, MaxNameLen)
                        \cup StringsUpTo({"a", "-"}, MaxKebabLen)
      [] sc = "confirm" -> {<<>>}
      [] sc = "subst" -> {<<>>, <<"m", "y", "-", "f", "e", "a", "t", "u", "r", "e">>}

\* what may be typed at the "Maven groupId" prompt
GroupInputs(sc) ==
    CASE sc = "run" -> {<<>>, <<"c", "o", "m", ".", "a", "c", "m", "e">>, <<"o", "r", "g", ".", "a", "c", "m", "e">>, <<"c", "o", "m", ".", "k", "i", "n", "g", "s", "r", "o", "o", "k">>,
                        <<"c", "o", "m", ".", "k", "i", "n", "g", "s", "r", "o", "o", "k", ".", "q", "b", "i", "t", "s", ".", "t", "o", "d", "o">>}
      [] sc = "subst" -> {<<"c", "o", "m", ".", "a", "c", "m", "e">>, <<"c", "o", "m", ".", "T", "o", "d", "o">>, <<"c", "o", "m", ".", "k", "i", "n", "g", "s", "r", "o", "o", "k", ".", "q", "b", "i", "t", "s", ".", "t", "o", "d", "o">>}
      [] OTHER -> {<<>>}

\* what may be typed at the "Maven artifactId" prompt
ArtifactInputs(sc) ==
    CASE sc = "subst" -> {<<>>, <<"x", "-", "T", "o", "d", "o">>}
      [] OTHER -> {<<>>}

\* what may be typed at the "GitHub organization" prompt
OrgInputs(sc) ==
    CASE sc = "subst" -> {<<>>, <<"a", "c", "m", "e">>}
      [] OTHER -> {<<>>}

\* what may be typed at the confirmation prompt
AnswerInputs(sc) ==
    CASE sc = "run" -> {<<>>, <<"n">>}
      [] sc = "confirm" -> StringsUpTo({"n", "N", "o", " "}, MaxAnswerLen)
      [] OTHER -> {<<>>}

\* The file trees main() may start on.  For each source root: no com
\* directory ("absent"), the template's package directory alone ("plain"), or
\* with a directory "other" beside qbits/todo, beside kingsrook/qbits or
\* beside com/kingsrook.
RootLayouts == {"absent", "plain", "beside_todo", "beside_qbits", "beside_kingsrook"}

ReadmeUnchanged == <<"#", " ", "N", "o", "t", "e", "s">>

ReadmeChanged == <<"#", " ", "T", "o", "d", "o", " ", "Q", "B", "i", "t">>

Layouts(sc) ==
    CASE sc = "run" ->
           [main : RootLayouts, test : {"absent", "plain"}, pom : BOOLEAN,
            readme : {ReadmeUnchanged, ReadmeChanged}, extras : {TRUE}]
      [] sc = "subst" ->
           [main : {"absent"}, test : {"absent"}, pom : {TRUE},
            readme : FragmentTexts, extras : {FALSE}]
      [] OTHER ->
           [main : {"plain"}, test : {"absent"}, pom : BOOLEAN,
            readme : {ReadmeChanged}, extras : {FALSE}]

Prefixes(path) == {SubSeq(path, 1, k) : k \in 1..Len(path)}

RootDirs(root, kind) ==
    Prefixes(root) \cup
    (IF kind = "absent" THEN {} ELSE Prefixes(root \o old_package_path)) \cup
    (CASE kind = "beside_todo" -> {root \o OldAncestors[1] \o <<<<"o", "t", "h", "e", "r">>>>}
       [] kind = "beside_qbits" -> {root \o OldAncestors[2] \o <<<<"o", "t", "h", "e", "r">>>>}
       [] kind = "beside_kingsrook" -> {root \o OldAncestors[3] \o <<<<"o", "t", "h", "e", "r">>>>}
       [] OTHER -> {})

MainJava == SrcRoots[1] \o old_package_path \o <<<<"T", "o", "d", "o", "Q", "B", "i", "t", "C", "o", "n", "f", "i", "g", ".", "j", "a", "v", "a">>>>

TestJava == SrcRoots[2] \o old_package_path \o <<<<"T", "o", "d", "o", "Q", "B", "i", "t", "C", "o", "n", "f", "i", "g", "T", "e", "s", "t", ".", "j", "a", "v", "a">>>>

ReadmePath == <<<<"R", "E", "A", "D", "M", "E", ".", "m", "d">>>>

LogoPath == <<<<"d", "o", "c", "s">>, <<"l", "o", "g", "o", ".", "m", "d">>>>

CiPath == <<<<"c", "i", ".", "y", "m", "l">>>>

TextFile(text) == [kind |-> "text", text |-> text]

LayoutDirs(l) ==
    RootDirs(SrcRoots[1], l.main) \cup RootDirs(SrcRoots[2], l.test)
    \cup (IF l.extras THEN {<<<<"d", "o", "c", "s">>>>} ELSE {})

LayoutFiles(l) ==
    LET paths == {ReadmePath}
                 \cup (IF l.pom THEN {PomPath} ELSE {})
                 \cup (IF l.main # "absent" THEN {MainJava} ELSE {})
                 \cup (IF l.test # "absent" THEN {TestJava} ELSE {})
                 \cup (IF l.extras THEN {LogoPath, CiPath} ELSE {})
    IN  [p \in paths |->
            CASE p = ReadmePath -> TextFile(l.readme)
              [] p = PomPath -> TextFile(<<"<", "a", "r", "t", "i", "f", "a", "c", "t", "I", "d", ">", "q", "b", "i", "t", "-", "t", "o", "d", "o", "<", "/", "a", "r", "t", "i", "f", "a", "c", "t", "I", "d", ">">>)
              [] p = MainJava -> TextFile(<<"p", "a", "c", "k", "a", "g", "e", " ", "c", "o", "m", ".", "k", "i", "n", "g", "s", "r", "o", "o", "k", ".", "q", "b", "i", "t", "s", ".", "t", "o", "d", "o", ";">>)
              [] p = TestJava -> TextFile(<<"i", "m", "p", "o", "r", "t", " ", "c", "o", "m", ".", "k", "i", "n", "g", "s", "r", "o", "o", "k", ".", "q", "b", "i", "t", "s", ".", "t", "o", "d", "o", ".", "T", "o", "d", "o", "Q", "B", "i", "t", "C", "o", "n", "f", "i", "g", ";">>)
              [] p = LogoPath -> [kind |-> "binary", text |-> <<>>]
              [] p = CiPath -> [kind |-> "dangling", text |-> <<>>]]

-----------------------------------------------------------------------------
(* main() *)

InitIn(sc) ==
    /\ scenario = sc
    /\ pc = "start"
    /\ \E l \in Layouts(sc) :
          /\ dirs = LayoutDirs(l)
          /\ files = LayoutFiles(l)
    /\ dirs0 = dirs
    /\ files0 = files
    /\ qbit_name = <<>>
    /\ kebab_name = <<>>
    /\ pascal_name = <<>>
    /\ camel_name = <<>>
    /\ package_name = <<>>
    /\ group_id = <<>>
    /\ artifact_id = <<>>
    /\ github_org = <<>>
    /\ answer = <<>>
    /\ confirm = <<>>
    /\ root_idx = 1
    /\ all_files = <<>>
    /\ file_idx = 1
    /\ replacements = <<>>
    /\ log = <<>>
    /\ prompts = 0

Init == InitIn("run")

InitCase == InitIn("case")

InitConfirm == InitIn("confirm")

InitSubst == InitIn("subst")

\* the tree as the helpers above take it
Tree == [dirs |-> dirs, files |-> files, log |-> log]

\* lines 71-74: the pom.xml check
CheckPom ==
    /\ pc = "start"
    /\ pc' = AfterPomCheck(Exists(dirs, files, PomPath))
    /\ UNCHANGED <<scenario, dirs, files, dirs0, files0, qbit_name, kebab_name,
                   pascal_name, camel_name, package_name, group_id, artifact_id,
                   github_org, answer, confirm, root_idx, all_files, file_idx,
                   replacements, log, prompts>>

\* lines 85-98: the name prompt and the derived forms
AskName ==
    /\ pc = "ask_name"
    /\ \E typed \in NameInputs(scenario) :
          /\ qbit_name' = prompt(typed, DefaultName)
          /\ kebab_name' = to_kebab_case(qbit_name')
          /\ pascal_name' = to_pascal_case(qbit_name')
          /\ camel_name' = to_camel_case(qbit_name')
          /\ package_name' = to_package_name(qbit_name')
    /\ prompts' = prompts + 1
    /\ pc' = "ask_group"
    /\ UNCHANGED <<scenario, dirs, files, dirs0, files0, group_id, artifact_id,
                   github_org, answer, confirm, root_idx, all_files, file_idx,
                   replacements, log>>

\* line 102
AskGroupId ==
    /\ pc = "ask_group"
    /\ \E typed \in GroupInputs(scenario) : group_id' = prompt(typed, DefaultGroupId)
    /\ prompts' = prompts + 1
    /\ pc' = "ask_artifact"
    /\ UNCHANGED <<scenario, dirs, files, dirs0, files0, qbit_name, kebab_name,
                   pascal_name, camel_name, package_name, artifact_id, github_org,
                   answer, confirm, root_idx, all_files, file_idx, replacements, log>>

\* line 103
AskArtifactId ==
    /\ pc = "ask_artifact"
    /\ \E typed \in ArtifactInputs(scenario) :
          artifact_id' = prompt(typed, DefaultArtifactId(kebab_name))
    /\ prompts' = prompts + 1
    /\ pc' = "ask_org"
    /\ UNCHANGED <<scenario, dirs, files, dirs0, files0, qbit_name, kebab_name,
                   pascal_name, camel_name, package_name, group_id, github_org,
                   answer, confirm, root_idx, all_files, file_idx, replacements, log>>

\* lines 106-113
AskGithubOrg ==
    /\ pc = "ask_org"
    /\ \E typed \in OrgInputs(scenario) : github_org' = prompt(typed, DefaultGithubOrg)
    /\ prompts' = prompts + 1
    /\ pc' = "ask_confirm"
    /\ UNCHANGED <<scenario, dirs, files, dirs0, files0, qbit_name, kebab_name,
                   pascal_name, camel_name, package_name, group_id, artifact_id,
                   answer, confirm, root_idx, all_files, file_idx, replacements, log>>

\* lines 115-118: the confirmation prompt
Confirm ==
    /\ pc = "ask_confirm"
    /\ \E typed \in AnswerInputs(scenario) :
          /\ answer' = typed
          /\ confirm' = ConfirmValue(typed)
    /\ prompts' = prompts + 1
    /\ pc' = AfterConfirm(confirm')
    /\ UNCHANGED <<scenario, dirs, files, dirs0, files0, qbit_name, kebab_name,
                   pascal_name, camel_name, package_name, group_id, artifact_id,
                   github_org, root_idx, all_files, file_idx, replacements, log>>

\* lines 129-142, one pass of the loop: the move of one source root and the
\* removal of the ancestors it left empty.  A move that raises ends the run
\* after the mkdir.
MoveRoot ==
    /\ pc = "move"
    /\ LET root == SrcRoots[root_idx]
           src_dir == root \o old_package_path
           dst_dir == root \o new_package_path(group_id, package_name)
           made == Mkdirs(Tree, Parent(dst_dir), 1)
           moved == Move(made, src_dir, dst_dir)
           after == RemoveAncestors(moved, root, 1)
           last == root_idx = Len(SrcRoots)
       IN  IF ~Exists(dirs, files, src_dir)
           THEN /\ pc' = IF last THEN "rename" ELSE "move"
                /\ root_idx' = IF last THEN 1 ELSE root_idx + 1
                /\ UNCHANGED <<dirs, files, log>>
           ELSE IF MoveRaises(made.dirs, made.files, src_dir, dst_dir)
           THEN /\ pc' = "crashed"
                /\ dirs' = made.dirs
                /\ log' = made.log
                /\ UNCHANGED <<files, root_idx>>
           ELSE /\ pc' = IF last THEN "rename" ELSE "move"
                /\ root_idx' = IF last THEN 1 ELSE root_idx + 1
                /\ dirs' = after.dirs
                /\ files' = after.files
                /\ log' = after.log
    /\ UNCHANGED <<scenario, dirs0, files0, qbit_name, kebab_name, pascal_name,
                   camel_name, package_name, group_id, artifact_id, github_org,
                   answer, confirm, all_files, file_idx, replacements, prompts>>

\* lines 147-154, one pass of the loop: the renames in one source root
RenameRoot ==
    /\ pc = "rename"
    /\ LET new_dir == SrcRoots[root_idx] \o new_package_path(group_id, package_name)
           renamed == IF Exists(dirs, files, new_dir)
                      THEN RenameAll(Tree, TodoFiles(files, new_dir), pascal_name)
                      ELSE Tree
           last == root_idx = Len(SrcRoots)
       IN  /\ files' = renamed.files
           /\ log' = renamed.log
           /\ pc' = IF last THEN "collect" ELSE "rename"
           /\ root_idx' = IF last THEN 1 ELSE root_idx + 1
    /\ UNCHANGED <<scenario, dirs, dirs0, files0, qbit_name, kebab_name, pascal_name,
                   camel_name, package_name, group_id, artifact_id, github_org,
                   answer, confirm, all_files, file_idx, replacements, prompts>>

\* lines 157-185: the files to scan, each glob in the order the file system
\* lists it, and the replacement table
CollectFiles ==
    /\ pc = "collect"
    /\ \E java \in Orders(JavaFiles(files)), md \in Orders(RootMdFiles(files)),
          docs \in Orders(DocsMdFiles(files)), yml \in Orders(YmlFiles(files)),
          yaml \in Orders(YamlFiles(files)) :
          all_files' = java \o <<PomPath>> \o md \o docs \o yml \o yaml
    /\ replacements' = Replacements(group_id, package_name, pascal_name, camel_name,
                                    artifact_id, github_org)
    /\ file_idx' = 1
    /\ pc' = "replace"
    /\ UNCHANGED <<scenario, dirs, files, dirs0, files0, qbit_name, kebab_name,
                   pascal_name, camel_name, package_name, group_id, artifact_id,
                   github_org, answer, confirm, root_idx, log, prompts>>

\* lines 55-67, one pass of the loop of replace_in_files
ReplaceInFile ==
    /\ pc = "replace"
    /\ file_idx <= Len(all_files)
    /\ LET path == all_files[file_idx]
           out == FileOutcome(files[path], replacements)
       IN  IF out.write
           THEN /\ files' = [files EXCEPT ![path].text = out.text]
                /\ log' = Append(log, [op |-> "write", path |-> path])
           ELSE UNCHANGED <<files, log>>
    /\ file_idx' = file_idx + 1
    /\ UNCHANGED <<scenario, pc, dirs, dirs0, files0, qbit_name, kebab_name,
                   pascal_name, camel_name, package_name, group_id, artifact_id,
                   github_org, answer, confirm, root_idx, all_files, replacements,
                   prompts>>

\* lines 191-205: the closing summary
Finish ==
    /\ pc = "replace"
    /\ file_idx > Len(all_files)
    /\ pc' = "done"
    /\ UNCHANGED <<scenario, dirs, files, dirs0, files0, qbit_name, kebab_name,
                   pascal_name, camel_name, package_name, group_id, artifact_id,
                   github_org, answer, confirm, root_idx, all_files, file_idx,
                   replacements, log, prompts>>

Next ==
    \/ CheckPom
    \/ AskName
    \/ AskGroupId
    \/ AskArtifactId
    \/ AskGithubOrg
    \/ Confirm
    \/ MoveRoot
    \/ RenameRoot
    \/ CollectFiles
    \/ ReplaceInFile
    \/ Finish

\* runs on the file trees and the coordinates that exercise the relocation
Spec == Init /\ [][Next]_vars

\* runs over every short QBit name
SpecCase == InitCase /\ [][Next]_vars

\* runs over every short answer to the confirmation prompt
SpecConfirm == InitConfirm /\ [][Next]_vars

\* runs over the texts built from the fragments
SpecSubst == InitSubst /\ [][Next]_vars

-----------------------------------------------------------------------------
(* The properties *)

\* the positions of main() before the confirmation prompt is answered
BeforeConfirm == {"start", "ask_name", "ask_group", "ask_artifact", "ask_org", "ask_confirm"}

\* the file tree is as main() found it and nothing was ever done to it
Untouched == dirs = dirs0 /\ files = files0 /\ log = <<>>

\* the text README.md had before main() ran, and the text it has now
ReadmeBefore == files0[ReadmePath].text

ReadmeNow == files[ReadmePath].text

\* C1: until the confirmation prompt is answered, and for good when it is
\* answered n, no file is written or renamed and no directory is made, moved
\* or removed.
C1_AbortChangesNothing ==
    (pc \in BeforeConfirm \/ answer = <<"n">>) => Untouched

\* C1: a run on a tree that has the package directory to move, answered n
C1_Witness ==
    /\ pc = "aborted"
    /\ answer = <<"n">>
    /\ SrcRoots[1] \o old_package_path \in dirs

\* C2: without pom.xml at the repository root main() ends at once: no prompt
\* is issued and nothing is done to the file tree.
C2_NoPomNoMutation ==
    ~Exists(dirs0, files0, PomPath) =>
        /\ pc \in {"start", "no_pom"}
        /\ prompts = 0
        /\ Untouched

\* C2: a run without pom.xml on a tree that has the package directory to move
C2_Witness ==
    /\ pc = "no_pom"
    /\ PomPath \notin DOMAIN files0
    /\ SrcRoots[1] \o old_package_path \in dirs

\* the search strings of the table other than the three package entries all
\* hold one of these
HoldsLaterSearch(text) ==
    Contains(text, <<"T", "o", "d", "o">>) \/ Contains(text, <<"t", "o", "d", "o", "Q", "B", "i", "t", "C", "o", "n", "f", "i", "g">>) \/ Contains(text, <<"q", "b", "i", "t", "-", "t", "o", "d", "o">>)

\* C3 as stated: in a scanned text whose only search strings are occurrences
\* of com.kingsrook.qbits.todo (bare, or after "package " or "import "), each
\* occurrence reads <groupId>.<packageSafe(name)> after the substitution and
\* nothing else has changed.
C3_PackageSubstitutedOnce ==
    (pc = "done" /\ ~HoldsLaterSearch(ReadmeBefore)) =>
        ReadmeNow = Replace(ReadmeBefore, old_package, new_package(group_id, package_name))

\* no search string of the table occurs in its own replacement
NoSelfContaining(table) == \A i \in DOMAIN table : ~Contains(table[i].new, table[i].old)

\* the text files of the tree
TextPaths == {p \in DOMAIN files : files[p].kind = "text"}

\* C4 as stated: when no search string is a substring of its own replacement,
\* applying the table to a substituted text once more changes nothing.
C4_IdempotentOnTable ==
    (pc = "done" /\ NoSelfContaining(replacements)) =>
        \A p \in TextPaths : ApplyTable(files[p].text, replacements) = files[p].text

Min(a, b) == IF a <= b THEN a ELSE b

Max(a, b) == IF a >= b THEN a ELSE b

\* length of the longest common prefix of s and r
CommonPrefixLen(s, r) ==
    CHOOSE k \in 0..Min(Len(s), Len(r)) :
        /\ SubSeq(s, 1, k) = SubSeq(r, 1, k)
        /\ k = Min(Len(s), Len(r)) \/ s[k + 1] # r[k + 1]

\* length of the longest common suffix of s and r that stays clear of their
\* first a characters
CommonSuffixLen(s, r, a) ==
    LET most == Min(Len(s), Len(r)) - a
    IN  CHOOSE k \in 0..most :
            /\ From(s, Len(s) - k + 1) = From(r, Len(r) - k + 1)
            /\ k = most \/ s[Len(s) - k] # r[Len(r) - k]

\* an occurrence of search in some text around the replacement new can take
\* in a character of new[lo + 1 .. hi], the part of new that differs from its
\* own search string (or, when that part is empty, the place where it would be)
Overlaps(search, new, lo, hi) ==
    \E st \in (2 - Len(search))..Len(new) :
        LET en == st + Len(search) - 1
        IN  /\ st <= hi
            /\ en >= lo + 1
            /\ \A p \in Max(st, 1)..Min(en, Len(new)) : search[p - st + 1] = new[p]

\* some entry that changes its search string puts it back, or puts in text
\* that the search string of the same or an earlier entry can overlap
Interferes(table) ==
    \E i \in DOMAIN table :
        LET old == table[i].old
            new == table[i].new
            lo == CommonPrefixLen(old, new)
            hi == Len(new) - CommonSuffixLen(old, new, lo)
        IN  /\ old # new
            /\ \/ Contains(new, old)
               \/ \E j \in 1..i : Overlaps(table[j].old, new, lo, hi)

\* C4 as amended: applying the table to a substituted text once more changes
\* nothing, provided that no entry's search string occurs in its own
\* replacement and that no search string of the same or an earlier entry can
\* overlap the part of a replacement that differs from its search string.
C4_IdempotentWithoutInterference ==
    pc = "done" =>
        \/ \A p \in TextPaths : ApplyTable(files[p].text, replacements) = files[p].text
        \/ Interferes(replacements)

\* C4: a README.md with two search strings in a row, substituted under a
\* table without interference
C4_Witness ==
    /\ pc = "done"
    /\ ReadmeBefore = <<"T", "o", "d", "o", "T", "o", "d", "o">>
    /\ ReadmeNow = <<"M", "y", "F", "e", "a", "t", "u", "r", "e", "M", "y", "F", "e", "a", "t", "u", "r", "e">>
    /\ group_id = <<"c", "o", "m", ".", "a", "c", "m", "e">>
    /\ ~Interferes(replacements)

\* a kebab-case name: words of lower-case letters joined by single hyphens
IsKebab(k) ==
    /\ k # <<>>
    /\ \A i \in DOMAIN k : IsLower(k[i]) \/ k[i] = "-"
    /\ k[1] # "-" /\ k[Len(k)] # "-"
    /\ \A i \in 1..(Len(k) - 1) : ~(k[i] = "-" /\ k[i + 1] = "-")

\* k[i] is a word of one letter
SingleLetterWord(k, i) ==
    /\ k[i] # "-"
    /\ i = 1 \/ k[i - 1] = "-"
    /\ i = Len(k) \/ k[i + 1] = "-"

\* two one-letter words of k stand side by side
AdjacentSingles(k) ==
    \E i \in 1..(Len(k) - 2) : SingleLetterWord(k, i) /\ SingleLetterWord(k, i + 2)

\* C5 as stated: the kebab-case form of the PascalCase form of a kebab-case
\* name is the name.
C5_RoundTrip ==
    (pc \notin {"start", "ask_name", "no_pom"} /\ IsKebab(qbit_name)) =>
        to_kebab_case(pascal_name) = qbit_name

\* C5 as amended: the round trip gives the name back when no two one-letter
\* words of it stand side by side.
C5_RoundTripNoAdjacentSingles ==
    (pc \notin {"start", "ask_name", "no_pom"} /\ IsKebab(qbit_name) /\ ~AdjacentSingles(qbit_name)) =>
        to_kebab_case(pascal_name) = qbit_name

\* C5: a name of three words, one of them a single letter, derived
C5_Witness ==
    /\ pc = "ask_group"
    /\ qbit_name = <<"a", "a", "-", "a", "-", "a", "a">>
    /\ pascal_name = <<"A", "a", "A", "A", "a">>

\* a word with its first character upper-cased and the others as given
FirstUpper(word) == IF word = <<>> THEN <<>> ELSE <<ToUpper(word[1])>> \o Tail(word)

\* C6 as stated: the PascalCase form changes the first character of each word
\* only, and the camelCase form is it with its first character lower-cased.
C6_OnlyFirstCharacterChanged ==
    pc \notin {"start", "ask_name", "no_pom"} =>
        LET words == SplitWords(qbit_name, <<>>, FALSE)
            pascal == Join([i \in 1..Len(words) |-> FirstUpper(words[i])])
        IN  /\ pascal_name = pascal
            /\ camel_name = IF pascal = <<>> THEN <<>> ELSE <<ToLower(pascal[1])>> \o Tail(pascal)

\* an answer that is n or N with nothing but spaces around it
IsSpacedN(typed) ==
    \E i \in DOMAIN typed :
        /\ typed[i] \in {"n", "N"}
        /\ \A j \in DOMAIN typed : j # i => typed[j] = " "

\* C7 as stated: only the answer n, exactly as typed, aborts.
C7_OnlyExactNAborts ==
    pc = "aborted" => answer = <<"n">>

\* C7 as amended: once the confirmation prompt is answered the run is aborted
\* when the answer is n or N with nothing but spaces around it, and goes on
\* to the mutation steps for every other answer.
C7_AbortsOnStrippedLoweredN ==
    pc \notin BeforeConfirm \cup {"no_pom"} =>
        /\ pc = "aborted" <=> IsSpacedN(answer)
        /\ pc # "aborted" => pc \in {"move", "rename", "collect", "replace", "done", "crashed"}

\* C7: a run answered no that went through the relocation
C7_Witness ==
    /\ pc = "done"
    /\ answer = <<"n", "o">>
    /\ log # <<>>

\* C8: one pass of replace_in_files writes its file exactly when the file is
\* readable text that the whole table changes; a file that is missing, is
\* not UTF-8 or is left unchanged is not written, and the loop goes on to the
\* next file.
C8_WrittenIffChanged ==
    [][(pc = "replace" /\ file_idx <= Len(all_files)) =>
          LET path == all_files[file_idx]
              file == files[path]
              changes == /\ file.kind = "text"
                         /\ ApplyTable(file.text, replacements) # file.text
          IN  /\ changes => /\ log' = Append(log, [op |-> "write", path |-> path])
                            /\ files'[path].text = ApplyTable(file.text, replacements)
              /\ ~changes => log' = log
              /\ \A p \in DOMAIN files : p # path \/ ~changes => files'[p] = files[p]
              /\ DOMAIN files' = DOMAIN files
              /\ pc' = "replace"
              /\ file_idx' = file_idx + 1]_vars

\* whether path was written
Written(path) == \E i \in DOMAIN log : log[i] = [op |-> "write", path |-> path]

\* C8: a finished run that met a file that is not UTF-8, a dangling link and
\* an unchanged README.md, wrote none of them, and wrote pom.xml
C8_Witness ==
    /\ pc = "done"
    /\ \E i, j \in DOMAIN all_files : all_files[i] = LogoPath /\ all_files[j] = CiPath
    /\ ReadmeNow = ReadmeUnchanged
    /\ ~Written(LogoPath) /\ ~Written(CiPath) /\ ~Written(ReadmePath)
    /\ Written(PomPath)

\* the directories removed by the step from log to its extension later, in order
RemovedBetween(before, later) ==
    LET new == SubSeq(later, Len(before) + 1, Len(later))
        gone == SelectSeq(new, LAMBDA e : e.op = "rmdir")
    IN  [i \in 1..Len(gone) |-> gone[i].path]

\* C9: one pass of the relocation loop.  A root without the old package
\* directory is skipped with nothing done and no error.  Otherwise the
\* directories removed are com/kingsrook/qbits, com/kingsrook, com in this
\* order, each after the move and with nothing left below it; the removal
\* ends at the first of them that holds an entry, and no other directory of
\* the tree is lost.
C9_RelocationRemovesOnlyEmptyAncestors ==
    [][pc = "move" =>
          LET root == SrcRoots[root_idx]
              src_dir == root \o old_package_path
              removed == RemovedBetween(log, log')
              new == SubSeq(log', Len(log) + 1, Len(log'))
          IN  IF src_dir \notin dirs
              THEN dirs' = dirs /\ files' = files /\ log' = log /\ pc' # "crashed"
              ELSE /\ Len(removed) <= Len(OldAncestors)
                   /\ \A i \in DOMAIN removed : removed[i] = root \o OldAncestors[i]
                   /\ \A i \in DOMAIN removed :
                         \A p \in dirs' \cup DOMAIN files' : ~IsPrefix(removed[i], p)
                   /\ \A i, j \in DOMAIN new :
                         new[i].op = "rmdir" /\ new[j].op \in {"move", "mkdir"} => j < i
                   /\ pc' = "crashed" => removed = <<>>
                   /\ (pc' # "crashed" /\ Len(removed) < Len(OldAncestors)) =>
                         Entries(dirs', files', root \o OldAncestors[Len(removed) + 1]) # {}
                   /\ \A d \in dirs : (~IsPrefix(src_dir, d) /\ d \notin dirs') =>
                         \E i \in DOMAIN removed : removed[i] = d
                   /\ Cardinality(DOMAIN files') = Cardinality(DOMAIN files)]_vars

\* whether directory d was removed
Removed(d) == \E i \in DOMAIN log : log[i] = [op |-> "rmdir", path |-> d]

\* C9: a relocation to com/acme/... that removed com/kingsrook/qbits and
\* com/kingsrook of the main root and left com, which holds the destination
C9_Witness ==
    /\ pc = "rename"
    /\ group_id = <<"c", "o", "m", ".", "a", "c", "m", "e">>
    /\ Removed(SrcRoots[1] \o OldAncestors[1])
    /\ Removed(SrcRoots[1] \o OldAncestors[2])
    /\ SrcRoots[1] \o OldAncestors[3] \in dirs
    /\ SrcRoots[1] \o new_package_path(group_id, package_name) \in dirs

\* C10 as stated: in a scanned text whose only search strings are occurrences
\* of qrun-io/qbit-todo (bare, or after "github.com/"), each occurrence reads
\* <githubOrg>/<artifactId> after the substitution and nothing else has
\* changed.
C10_GithubUrlSubstituted ==
    (/\ pc = "done"
     /\ Contains(ReadmeBefore, <<"q", "r", "u", "n", "-", "i", "o", "/", "q", "b", "i", "t", "-", "t", "o", "d", "o">>)
     /\ ~Contains(ReadmeBefore, <<"T", "o", "d", "o">>)
     /\ ~Contains(ReadmeBefore, old_package)
     /\ ~Contains(Replace(ReadmeBefore, <<"q", "r", "u", "n", "-", "i", "o", "/", "q", "b", "i", "t", "-", "t", "o", "d", "o">>, <<>>), <<"q", "b", "i", "t", "-", "t", "o", "d", "o">>)) =>
        ReadmeNow = Replace(ReadmeBefore, <<"q", "r", "u", "n", "-", "i", "o", "/", "q", "b", "i", "t", "-", "t", "o", "d", "o">>,
                            github_org \o <<"/">> \o artifact_id)

====
